---- MODULE Spec2Model ----
(***************************************************************************)
(* Event authorisation rules of matrixeventauth (eventauth.go).            *)
(*                                                                         *)
(* Identifiers (user, room and event IDs, tokens, server names) are       *)
(* sequences of one-character strings, so that the server-domain           *)
(* extraction, the user-ID shape test and the lexicographic sort work on   *)
(* the characters as the Go code does.                                     *)
(*                                                                         *)
(* eventauth.go is the only file of the package that is present; the       *)
(* content types it uses (createContent, memberContent, joinRuleContent,   *)
(* powerLevelContent) and domainFromID are declared elsewhere.  Those are  *)
(* modelled from the written specification.  The oracle (AuthEvents)       *)
(* answers each lookup with an event or with "absent"; storage errors,     *)
(* which the loaders merely pass through, are not modelled.                *)
(*                                                                         *)
(* The file does not build as it stands.  Where it names a field or a      *)
(* variable in two spellings (senderMember / senderMembership, targetID /  *)
(* TargetID, newMembership for newMember.Membership) the single field is   *)
(* meant; eventAllower.commonChecks is the method the file defines as      *)
(* defaultAllowed; senderLevel in powerLevelEventAllowed is the sender's   *)
(* level under the old power levels.  Everything else is taken as written, *)
(* in particular the block-local ":=" re-declarations of the check lists.  *)
(***************************************************************************)
EXTENDS Integers, Sequences, FiniteSets, TLC

VARIABLES
    pc,          \* "call" before the operation has run, "done" after, "room" in the room run
    event,       \* the event handed to Allowed (the last one sent, in the room run)
    authEvents,  \* the AuthEvents oracle: the auth state Allowed may consult
    result,      \* what Allowed returned: its outcome and the oracle keys it looked up
    events,      \* the batch handed to StateNeededForAuth
    needed       \* what StateNeededForAuth returned

vars == <<pc, event, authEvents, result, events, needed>>

----------------------------------------------------------------------------
(* Bounds of the model *)

MaxPrevEvents == 2
MaxBatch == 3

(* A nil string pointer, or the failure of domainFromID: no identifier. *)
Nil == <<"nil">>
(* An oracle lookup that finds no event. *)
Absent == "absent"
NoEvent == [absent |-> TRUE]

----------------------------------------------------------------------------
(* Identifiers *)

Alice == <<"@", "a", ":", "x">>
Bob == <<"@", "b", ":", "y">>
Carol == <<"@", "c", ":", "x">>
NoColon == <<"@", "d">>
Room == <<"!", "r", ":", "x">>
RoomY == <<"!", "r", ":", "y">>
CreateID == <<"$", "c", ":", "x">>
OtherID == <<"$", "o", ":", "y">>
Token == <<"t">>
Token2 == <<"s">>
Empty == <<>>
DomainX == <<"x">>
DomainY == <<"y">>

Users == {Alice, Bob, Carol}

(* The byte value of a character, as Go compares strings. *)
Code(c) ==
    CASE c = "!" -> 33 [] c = "$" -> 36 [] c = ":" -> 58 [] c = "@" -> 64
      [] c = "a" -> 97 [] c = "b" -> 98 [] c = "c" -> 99 [] c = "d" -> 100
      [] c = "o" -> 111 [] c = "r" -> 114 [] c = "s" -> 115 [] c = "t" -> 116
      [] c = "x" -> 120 [] c = "y" -> 121

(* Go's s < t on strings: bytewise lexicographic. *)
RECURSIVE StrLess(_, _)
StrLess(s, t) ==
    IF t = <<>> THEN FALSE
    ELSE IF s = <<>> THEN TRUE
    ELSE IF Code(Head(s)) # Code(Head(t)) THEN Code(Head(s)) < Code(Head(t))
    ELSE StrLess(Tail(s), Tail(t))

(* strings.IndexByte(id, ':'): the first position of a colon, 0 when none. *)
IndexColon(id) ==
    IF \E i \in 1..Len(id) : id[i] = ":"
    THEN CHOOSE i \in 1..Len(id) : id[i] = ":" /\ \A j \in 1..(i - 1) : id[j] # ":"
    ELSE 0

(* domainFromID: the part after the first colon; Nil (an error) without a colon. *)
domainFromID(id) ==
    IF IndexColon(id) = 0 THEN Nil
    ELSE SubSeq(id, IndexColon(id) + 1, Len(id))

isValidUserID(userID) ==
    userID[1] = "@" /\ IndexColon(userID) # 0

----------------------------------------------------------------------------
(* Outcomes *)

Ok == [kind |-> "ok", msg |-> ""]
NotAllowed(m) == [kind |-> "NotAllowed", msg |-> m]
Panic(m) == [kind |-> "panic", msg |-> m]

(* An oracle key: Create, JoinRules, PowerLevels, Member(k), ThirdPartyInvite(k). *)
Key(k) == [k |-> k, key |-> Empty]
MemberKey(u) == [k |-> "member", key |-> u]
ThirdPartyInviteKey(t) == [k |-> "third_party_invite", key |-> t]

(* What a rule routine hands back: its outcome and the lookups it performed. *)
Ret(r, looked) == [res |-> r, looked |-> looked]

----------------------------------------------------------------------------
(* Content views (createContent, memberContent, joinRuleContent,           *)
(* powerLevelContent) and their loaders                                    *)

Unparsable == [unparsable |-> TRUE]

Memberships == {"join", "leave", "invite", "ban", "knock"}
JoinRules == {"public", "invite", "knock", "private"}

DefaultLevel == 50
DefaultEventLevel == 0
DefaultUserLevel == 0
CreatorLevel == 100

EmptyMap == [k \in {} |-> 0]

(* createContent.load: the create entry's creator, m.federate and event ID. *)
createLoad(auth) == auth.create

(* createContent.domainAllowed: with m.federate false only the creator's domain acts. *)
domainAllowed(create, domain) ==
    create.federate \/ domain = domainFromID(create.creator)

(* createContent.idAllowed: the ID has a domain, and the domain is allowed. *)
idAllowed(create, id) ==
    domainFromID(id) # Nil /\ domainAllowed(create, domainFromID(id))

(* A member content without a third_party_invite sub-object. *)
NoInvite == [absent |-> TRUE]

(* memberContent.parse: the membership must be one of the five tokens. *)
memberParse(content) ==
    IF content = Unparsable \/ content.membership \notin Memberships THEN Unparsable
    ELSE [Membership |-> content.membership,
          ThirdPartyInvite |-> content.third_party_invite]

(* AuthEvents.Member(stateKey) *)
MemberOf(auth, stateKey) ==
    IF stateKey \in DOMAIN auth.member THEN auth.member[stateKey] ELSE Absent

(* memberContent.load: an absent member entry counts as "leave". *)
memberLoad(auth, stateKey) ==
    IF MemberOf(auth, stateKey) = Absent THEN "leave" ELSE MemberOf(auth, stateKey)

(* joinRuleContent.load: an absent join-rules event counts as "invite". *)
joinRuleLoad(auth) ==
    IF auth.joinRules = Absent THEN "invite" ELSE auth.joinRules

(* A level of the content's JSON object, or the default when the key is missing. *)
OrDefault(content, name, d) ==
    IF name \in DOMAIN content.levels THEN content.levels[name] ELSE d

(* powerLevelContent.parse: every absent scalar takes its default. *)
powerLevelParse(content) ==
    [banLevel |-> OrDefault(content, "ban", DefaultLevel),
     inviteLevel |-> OrDefault(content, "invite", DefaultLevel),
     kickLevel |-> OrDefault(content, "kick", DefaultLevel),
     redactLevel |-> OrDefault(content, "redact", DefaultLevel),
     stateDefaultLevel |-> OrDefault(content, "state_default", DefaultLevel),
     eventDefaultLevel |-> OrDefault(content, "events_default", DefaultEventLevel),
     userDefaultLevel |-> OrDefault(content, "users_default", DefaultUserLevel),
     eventLevels |-> content.events,
     userLevels |-> content.users]

(* The content {}: no key at all. *)
NoContent == [levels |-> EmptyMap, events |-> EmptyMap, users |-> EmptyMap]

(* powerLevelContent.load: without a power-levels event all defaults apply and the
   creator has level 100. *)
powerLevelLoad(auth, creator) ==
    IF auth.powerLevels = NoEvent
    THEN [powerLevelParse(NoContent) EXCEPT !.userLevels = (creator :> CreatorLevel)]
    ELSE powerLevelParse(auth.powerLevels)

(* powerLevelContent.userLevel *)
userLevel(pl, userID) ==
    IF userID \in DOMAIN pl.userLevels THEN pl.userLevels[userID] ELSE pl.userDefaultLevel

(* powerLevelContent.eventLevel *)
eventLevel(pl, eventType, stateKey) ==
    IF eventType \in DOMAIN pl.eventLevels THEN pl.eventLevels[eventType]
    ELSE IF stateKey # Nil THEN pl.stateDefaultLevel
    ELSE pl.eventDefaultLevel

----------------------------------------------------------------------------
(* Rule routines *)

createEventAllowed(ev, auth) ==
    IF domainFromID(ev.roomID) = Nil THEN Ret(NotAllowed("bad room ID"), {})
    ELSE IF domainFromID(ev.sender) = Nil THEN Ret(NotAllowed("bad sender ID"), {})
    ELSE IF domainFromID(ev.sender) # domainFromID(ev.roomID)
    THEN Ret(NotAllowed("create event room ID domain does not match sender"), {})
    ELSE IF Len(ev.prevEvents) > 0
    THEN Ret(NotAllowed("create event must be the first event in the room"), {})
    ELSE Ret(Ok, {})

aliasEventAllowed(ev, auth) ==
    LET senderDomain == domainFromID(ev.sender)
        create == createLoad(auth)
        looked == {Key("create")}
    IN  IF senderDomain = Nil THEN Ret(NotAllowed("bad sender ID"), {})
        ELSE IF ~domainAllowed(create, senderDomain)
        THEN Ret(NotAllowed("domain not allowed"), looked)
        ELSE IF ev.stateKey = Nil THEN Ret(NotAllowed("alias must be a state event"), looked)
        ELSE IF senderDomain # ev.stateKey
        THEN Ret(NotAllowed("alias state_key does not match sender domain"), looked)
        ELSE Ret(Ok, looked)

(* membershipAllower.setup: the lookups it performs, in its order. *)
setupLooked(ev) ==
    {MemberKey(ev.sender), MemberKey(ev.stateKey), Key("create"),
     Key("power_levels"), Key("join_rules")}

(* membershipAllower.setup: the fields it fills. *)
setup(ev, auth) ==
    [targetID |-> ev.stateKey,
     senderID |-> ev.sender,
     senderMember |-> memberLoad(auth, ev.sender),
     oldMember |-> memberLoad(auth, ev.stateKey),
     newMember |-> memberParse(ev.content).Membership,
     create |-> createLoad(auth),
     powerLevels |-> powerLevelLoad(auth, createLoad(auth).creator),
     joinRule |-> joinRuleLoad(auth)]

membershipFailed(m) ==
    IF m.senderID = m.targetID
    THEN NotAllowed("not allowed to change their membership")
    ELSE IF m.senderMember # "join" THEN NotAllowed("sender is not in the room")
    ELSE NotAllowed("not allowed to change the membership of")

(* membershipAllowedSelf without the join rule on a join from "leave". *)
membershipAllowedSelfAnyRule(m) ==
    IF m.newMember = "join" /\ m.oldMember \in {"leave", "invite", "join"} THEN Ok
    ELSE IF m.newMember = "leave" /\ (m.oldMember = "join" \/ m.oldMember = "invite")
    THEN Ok
    ELSE membershipFailed(m)

(* membershipAllowedSelf that lets a user leave from any membership but "leave". *)
membershipAllowedSelfLeaveAny(m) ==
    IF m.newMember = "join" /\
       (\/ m.oldMember = "leave" /\ m.joinRule = "public"
        \/ m.oldMember = "invite" /\ m.joinRule = "public"
        \/ m.oldMember = "invite" /\ m.joinRule = "invite"
        \/ m.oldMember = "join")
    THEN Ok
    ELSE IF m.newMember = "leave" /\ m.oldMember # "leave"
    THEN Ok
    ELSE membershipFailed(m)

membershipAllowedSelf(m) ==
    IF m.newMember = "join" /\
       (\/ m.oldMember = "leave" /\ m.joinRule = "public"
        \/ m.oldMember = "invite" /\ m.joinRule = "public"
        \/ m.oldMember = "invite" /\ m.joinRule = "invite"
        \/ m.oldMember = "join")
    THEN Ok
    ELSE IF m.newMember = "leave" /\ (m.oldMember = "join" \/ m.oldMember = "invite")
    THEN Ok
    ELSE membershipFailed(m)

(* membershipAllowedOther with >= in place of > between sender and target. *)
membershipAllowedOtherEqual(m) ==
    LET senderLevel == userLevel(m.powerLevels, m.senderID)
        targetLevel == userLevel(m.powerLevels, m.targetID)
    IN  IF m.senderMember = "join" /\
           (\/ /\ m.newMember = "ban"
               /\ senderLevel >= m.powerLevels.banLevel
               /\ senderLevel >= targetLevel
            \/ /\ m.newMember = "leave"
               /\ \/ m.oldMember = "ban" /\ senderLevel >= m.powerLevels.banLevel
                  \/ /\ m.oldMember # "ban"
                     /\ senderLevel >= m.powerLevels.kickLevel
                     /\ senderLevel >= targetLevel
            \/ /\ m.newMember = "invite"
               /\ m.oldMember \in {"leave", "invite"}
               /\ senderLevel >= m.powerLevels.inviteLevel)
        THEN Ok
        ELSE membershipFailed(m)

membershipAllowedOther(m) ==
    LET senderLevel == userLevel(m.powerLevels, m.senderID)
        targetLevel == userLevel(m.powerLevels, m.targetID)
    IN  IF m.senderMember = "join" /\
           (\/ /\ m.newMember = "ban"
               /\ senderLevel >= m.powerLevels.banLevel
               /\ senderLevel > targetLevel
            \/ /\ m.newMember = "leave"
               /\ \/ m.oldMember = "ban" /\ senderLevel >= m.powerLevels.banLevel
                  \/ /\ m.oldMember # "ban"
                     /\ senderLevel >= m.powerLevels.kickLevel
                     /\ senderLevel > targetLevel
            \/ /\ m.newMember = "invite"
               /\ \/ m.oldMember = "leave" /\ senderLevel >= m.powerLevels.inviteLevel
                  \/ m.oldMember = "invite" /\ senderLevel >= m.powerLevels.inviteLevel)
        THEN Ok
        ELSE membershipFailed(m)

membershipAllowed(m) ==
    IF m.targetID = m.senderID THEN membershipAllowedSelf(m)
    ELSE membershipAllowedOther(m)

(* A prev_events entry is a list of raw JSON values; the first is the event ID. *)
JString(id) == [json |-> "string", val |-> id]
JObject == [json |-> "object", val |-> Empty]

(* The condition of the first-join special case. *)
isFirstJoin(ev, create, newMember) ==
    /\ Len(ev.prevEvents) = 1
    /\ newMember.Membership = "join"
    /\ create.creator = ev.stateKey
    /\ ev.sender = ev.stateKey

(* prevIsCreate without the comparison of the event IDs. *)
prevIsAny(prevEventID, create) == TRUE

(* The creator joins directly after the create event. *)
prevIsCreate(prevEventID, create) == prevEventID = create.eventID

memberEventAllowed(ev, auth) ==
    LET create == createLoad(auth)
        newMember == memberParse(ev.content)
        looked == {Key("create")}
    IN  IF ~idAllowed(create, ev.sender) THEN Ret(NotAllowed("sender not allowed"), looked)
        ELSE IF newMember = Unparsable THEN Ret(NotAllowed("unparsable member content"), looked)
        ELSE IF ev.stateKey = Nil THEN Ret(NotAllowed("member must be a state event"), looked)
        ELSE IF isFirstJoin(ev, create, newMember) /\ Len(ev.prevEvents[1]) # 2
        THEN Ret(NotAllowed("unparsable prev event"), looked)
        ELSE IF isFirstJoin(ev, create, newMember) /\ ev.prevEvents[1][1].json # "string"
        THEN Ret(NotAllowed("unparsable prev event"), looked)
        ELSE IF isFirstJoin(ev, create, newMember)
                /\ prevIsCreate(ev.prevEvents[1][1].val, create)
        THEN Ret(Ok, looked)
        ELSE IF ~idAllowed(create, ev.stateKey)
        THEN Ret(NotAllowed("target not allowed"), looked)
        ELSE IF newMember.Membership = "invite" /\ newMember.ThirdPartyInvite # NoInvite
        THEN Ret(Panic("ThirdPartyInvite not implemented"), looked)
        ELSE Ret(membershipAllowed(setup(ev, auth)), looked \cup setupLooked(ev))

(* eventAllower.setup: the lookups it performs. *)
eventSetupLooked(senderID) ==
    {Key("create"), MemberKey(senderID), Key("power_levels")}

(* eventAllower.setup: the fields it fills. *)
eventSetup(auth, senderID) ==
    [create |-> createLoad(auth),
     member |-> memberLoad(auth, senderID),
     powerLevels |-> powerLevelLoad(auth, createLoad(auth).creator)]

(* defaultAllowed without the test that the sender is in the room. *)
defaultAllowedAnyone(e, ev) ==
    IF ~idAllowed(e.create, ev.sender) THEN NotAllowed("sender not allowed")
    ELSE IF userLevel(e.powerLevels, ev.sender)
            < eventLevel(e.powerLevels, ev.type, ev.stateKey)
    THEN NotAllowed("sender is not allowed to send event")
    ELSE IF /\ ev.stateKey # Nil
            /\ Len(ev.stateKey) > 0
            /\ ev.stateKey[1] = "@"
            /\ ev.stateKey # ev.sender
    THEN NotAllowed("sender is not allowed to modify the state belonging to")
    ELSE Ok

(* eventAllower.defaultAllowed, the checks common to every ordinary event. *)
defaultAllowed(e, ev) ==
    IF ~idAllowed(e.create, ev.sender) THEN NotAllowed("sender not allowed")
    ELSE IF e.member # "join" THEN NotAllowed("sender not in room")
    ELSE IF userLevel(e.powerLevels, ev.sender)
            < eventLevel(e.powerLevels, ev.type, ev.stateKey)
    THEN NotAllowed("sender is not allowed to send event")
    ELSE IF /\ ev.stateKey # Nil
            /\ Len(ev.stateKey) > 0
            /\ ev.stateKey[1] = "@"
            /\ ev.stateKey # ev.sender
    THEN NotAllowed("sender is not allowed to modify the state belonging to")
    ELSE Ok

(* The six pairs levelChecks is initialised with.  The two loops over the event
   types append to a list declared anew inside the loop body, so the list that is
   checked keeps these six entries. *)
levelChecks(old, new) ==
    <<  <<old.banLevel, new.banLevel>>,
        <<old.inviteLevel, new.inviteLevel>>,
        <<old.kickLevel, new.kickLevel>>,
        <<old.redactLevel, new.redactLevel>>,
        <<old.stateDefaultLevel, new.stateDefaultLevel>>,
        <<old.eventDefaultLevel, new.eventDefaultLevel>>  >>

(* The first checking loop. *)
levelCheckFails(checks, senderLevel) ==
    \E i \in 1..Len(checks) :
        /\ checks[i][1] # checks[i][2]
        /\ (senderLevel < checks[i][1] \/ senderLevel < checks[i][2])

(* The second checking loop: it ranges over levelChecks again; userLevelChecks,
   with the users_default pair, is built and never read. *)
userLevelCheckFails(checks, senderLevel) ==
    \E i \in 1..Len(checks) :
        /\ checks[i][1] # checks[i][2]
        /\ (senderLevel <= checks[i][1] \/ senderLevel < checks[i][2])

powerLevelEventAllowed(ev, auth) ==
    LET allower == eventSetup(auth, ev.sender)
        looked == eventSetupLooked(ev.sender)
        common == defaultAllowed(allower, ev)
        oldPowerLevels == allower.powerLevels
        newPowerLevels == powerLevelParse(ev.content)
        senderLevel == userLevel(oldPowerLevels, ev.sender)
    IN  IF common # Ok THEN Ret(common, looked)
        ELSE IF ev.content = Unparsable
        THEN Ret(NotAllowed("unparsable power level content"), looked)
        ELSE IF \E userID \in DOMAIN newPowerLevels.userLevels : ~isValidUserID(userID)
        THEN Ret(NotAllowed("Not a valid user ID"), looked)
        ELSE IF levelCheckFails(levelChecks(oldPowerLevels, newPowerLevels), senderLevel)
        THEN Ret(NotAllowed("not allowed to change level"), looked)
        ELSE IF userLevelCheckFails(levelChecks(oldPowerLevels, newPowerLevels), senderLevel)
        THEN Ret(NotAllowed("not allowed to change user level"), looked)
        ELSE Ret(Ok, looked)

redactEventAllowed(ev, auth) ==
    LET allower == eventSetup(auth, ev.sender)
        looked == eventSetupLooked(ev.sender)
        common == defaultAllowed(allower, ev)
        senderDomain == domainFromID(ev.sender)
        redactDomain == domainFromID(ev.redacts)
    IN  IF common # Ok THEN Ret(common, looked)
        ELSE IF senderDomain = Nil THEN Ret(NotAllowed("bad sender ID"), looked)
        ELSE IF redactDomain = Nil THEN Ret(NotAllowed("bad redacts ID"), looked)
        ELSE IF senderDomain = redactDomain THEN Ret(Ok, looked)
        ELSE IF userLevel(allower.powerLevels, ev.sender) >= allower.powerLevels.redactLevel
        THEN Ret(Ok, looked)
        ELSE Ret(NotAllowed("not allowed to redact message"), looked)

defaultEventAllowed(ev, auth) ==
    Ret(defaultAllowed(eventSetup(auth, ev.sender), ev), eventSetupLooked(ev.sender))

Allowed(ev, auth) ==
    CASE ev.type = "m.room.create" -> createEventAllowed(ev, auth)
      [] ev.type = "m.room.alias" -> aliasEventAllowed(ev, auth)
      [] ev.type = "m.room.member" -> memberEventAllowed(ev, auth)
      [] ev.type = "m.room.power_levels" -> powerLevelEventAllowed(ev, auth)
      [] ev.type = "m.room.redact" -> redactEventAllowed(ev, auth)
      [] OTHER -> defaultEventAllowed(ev, auth)

----------------------------------------------------------------------------
(* StateNeededForAuth *)

(* sort.Strings: insertion of each string before the first greater one. *)
RECURSIVE Insert(_, _)
Insert(sorted, x) ==
    IF sorted = <<>> THEN <<x>>
    ELSE IF StrLess(x, Head(sorted)) THEN <<x>> \o sorted
    ELSE <<Head(sorted)>> \o Insert(Tail(sorted), x)

RECURSIVE SortStrings(_)
SortStrings(list) ==
    IF list = <<>> THEN <<>> ELSE Insert(SortStrings(Tail(list)), Head(list))

(* data.Swap(a, b), with the code's positions, which count from 0. *)
Swap(data, a, b) ==
    [data EXCEPT ![a + 1] = data[b + 1], ![b + 1] = data[a + 1]]

(* The loop of unique, from position i on. *)
RECURSIVE uniqueLoop(_, _, _)
uniqueLoop(data, i, j) ==
    IF i >= Len(data) THEN [data |-> data, j |-> j]
    ELSE IF StrLess(data[i], data[i + 1])
    THEN uniqueLoop(Swap(data, i - 1, j), i + 1, j + 1)
    ELSE uniqueLoop(data, i + 1, j)

(* unique: the list after the swaps and the length without duplicates.  On an
   empty list the final Swap(length-1, j) is Swap(-1, 0): an index out of range. *)
unique(data) ==
    IF Len(data) = 0 THEN [panic |-> TRUE, data |-> data, n |-> 0]
    ELSE LET r == uniqueLoop(data, 1, 0)
         IN  [panic |-> FALSE, data |-> Swap(r.data, Len(data) - 1, r.j), n |-> r.j + 1]

needsThirdpartyInvite(thirdpartyinvites, ev) ==
    IF ev.content = Unparsable THEN thirdpartyinvites
    ELSE IF ev.content.third_party_invite # NoInvite
            /\ ev.content.third_party_invite.signed.token # Empty
    THEN Append(thirdpartyinvites, ev.content.third_party_invite.signed.token)
    ELSE thirdpartyinvites

(* One turn of the loop over the events: the switch on the event type.  A member
   event's state key is read through its pointer, which a member event without a
   state key leaves nil. *)
neededStep(acc, ev) ==
    CASE ev.type = "m.room.create" -> acc
      [] ev.type = "m.room.aliases" -> [acc EXCEPT !.Create = TRUE]
      [] ev.type = "m.room.member" ->
            IF ev.stateKey = Nil
            THEN [acc EXCEPT !.Create = TRUE, !.PowerLevels = TRUE, !.JoinRules = TRUE,
                             !.panic = TRUE]
            ELSE [acc EXCEPT !.Create = TRUE, !.PowerLevels = TRUE, !.JoinRules = TRUE,
                             !.members = acc.members \o <<ev.sender, ev.stateKey>>,
                             !.thirdpartyinvites =
                                 needsThirdpartyInvite(acc.thirdpartyinvites, ev)]
      [] OTHER -> [acc EXCEPT !.Create = TRUE, !.PowerLevels = TRUE,
                              !.members = Append(acc.members, ev.sender)]

RECURSIVE neededLoop(_, _)
neededLoop(acc, evs) ==
    IF evs = <<>> THEN acc ELSE neededLoop(neededStep(acc, Head(evs)), Tail(evs))

(* What the loop over the events has collected before the lists are deduplicated. *)
Collected(evs) ==
    neededLoop([panic |-> FALSE, Create |-> FALSE, JoinRules |-> FALSE,
                PowerLevels |-> FALSE, members |-> <<>>, thirdpartyinvites |-> <<>>], evs)

StateNeededForAuth(evs) ==
    LET acc == Collected(evs)
        m == unique(SortStrings(acc.members))
        t == unique(SortStrings(acc.thirdpartyinvites))
    IN  IF acc.panic \/ m.panic \/ t.panic
        THEN [kind |-> "panic", Create |-> FALSE, JoinRules |-> FALSE, PowerLevels |-> FALSE,
              Member |-> <<>>, ThirdPartyInvite |-> <<>>]
        ELSE [kind |-> "ok", Create |-> acc.Create, JoinRules |-> acc.JoinRules,
              PowerLevels |-> acc.PowerLevels,
              Member |-> SubSeq(m.data, 1, m.n),
              ThirdPartyInvite |-> SubSeq(t.data, 1, t.n)]

----------------------------------------------------------------------------
(* Inputs: the events and the oracles the operations are applied to *)

Ev(type, roomID, sender, stateKey, content, prevEvents, redacts) ==
    [roomID |-> roomID, eventID |-> OtherID, sender |-> sender, type |-> type,
     stateKey |-> stateKey, content |-> content, prevEvents |-> prevEvents,
     redacts |-> redacts]

Auth(federate, joinRules, powerLevels, member, invites) ==
    [create |-> [creator |-> Alice, federate |-> federate, eventID |-> CreateID],
     joinRules |-> joinRules, powerLevels |-> powerLevels, member |-> member,
     thirdPartyInvite |-> invites]

NoMembers == [u \in Users |-> Absent]

(* The oracle that knows the create event and nothing else. *)
OnlyCreate == Auth(TRUE, Absent, NoEvent, NoMembers, {})

PL(levels, eventLevels, userLevels) ==
    [levels |-> levels, events |-> eventLevels, users |-> userLevels]

PartialMaps(K, V) == UNION {[D -> V] : D \in SUBSET K}

GoodRef(id) == <<JString(id), JObject>>
Refs == {GoodRef(CreateID), GoodRef(OtherID), <<JString(CreateID)>>, <<JObject, JObject>>}
PrevEventLists ==
    {<<>>} \cup {<<r>> : r \in Refs}
           \cup {[i \in 1..n |-> GoodRef(CreateID)] : n \in 2..MaxPrevEvents}

MemberContent(membership, invite) ==
    [membership |-> membership, third_party_invite |-> invite]
Invite(token) == [signed |-> [token |-> token]]
MemberContents ==
    {MemberContent(m, NoInvite) : m \in Memberships \cup {"bogus"}}
    \cup {MemberContent("invite", Invite(Token)), MemberContent("invite", Invite(Empty)),
          MemberContent("join", Invite(Token)), Unparsable}

Senders == Users \cup {NoColon}

(* Power levels of the rooms member events are judged in. *)
MemberLevels ==
    {EmptyMap, ("ban" :> 100 @@ "kick" :> 0 @@ "invite" :> 0 @@ "users_default" :> 50)}
MemberPowerLevels ==
    {NoEvent} \cup {PL(l, EmptyMap, u) : l \in MemberLevels, u \in [{Alice, Bob} -> {0, 50, 100}]}

(* Power levels before and after a power-levels event. *)
ChangedLevels ==
    {EmptyMap, ("ban" :> 0), ("ban" :> 100), ("users_default" :> 50)}
ChangedPowerLevels ==
    {PL(l, e, u) : l \in ChangedLevels,
                   e \in {EmptyMap, ("m.room.message" :> 100)},
                   u \in PartialMaps({Alice, Bob}, {50, 100})}

(* Power levels ordinary events are judged in. *)
OtherPowerLevels ==
    {NoEvent,
     PL(EmptyMap, ("m.room.message" :> 50 @@ "m.room.aliases" :> 0), (Bob :> 50)),
     PL(("redact" :> 0 @@ "state_default" :> 0), EmptyMap, EmptyMap),
     PL(("events_default" :> 50 @@ "users_default" :> 50), EmptyMap, (Alice :> 0))}

InitCreate ==
    /\ \E roomID \in {Room, RoomY, <<"!", "r">>}, sender \in Senders, prev \in PrevEventLists :
          event = Ev("m.room.create", roomID, sender, Empty, NoContent, prev, Empty)
    /\ authEvents = OnlyCreate

InitAlias ==
    /\ \E sender \in Senders, stateKey \in {Nil, DomainX, DomainY} :
          event = Ev("m.room.alias", Room, sender, stateKey, NoContent, <<>>, Empty)
    /\ \E federate \in BOOLEAN, pls \in {NoEvent, PL(EmptyMap, EmptyMap, EmptyMap)},
          m \in {Absent, "join"} :
          authEvents = Auth(federate, Absent, pls, [u \in Users |-> m], {})

(* Member events of a user about themselves, and member events without a state key. *)
InitMemberSelf ==
    \E sender \in Users, isState \in BOOLEAN, content \in MemberContents,
       prev \in PrevEventLists, federate \in BOOLEAN, rule \in JoinRules \cup {Absent},
       old \in Memberships \cup {Absent},
       pls \in {NoEvent, PL(("ban" :> 0), EmptyMap, (Bob :> 100))} :
       /\ event = Ev("m.room.member", Room, sender, IF isState THEN sender ELSE Nil,
                     content, prev, Empty)
       /\ \E invites \in IF content # Unparsable /\ content.third_party_invite # NoInvite
                          THEN {{}, {Token}} ELSE {{}} :
             authEvents = Auth(federate, rule, pls, [NoMembers EXCEPT ![sender] = old], invites)

(* Member events of one user about another. *)
InitMemberOther ==
    \E sender \in Users, target \in Users,
       content \in {MemberContent(m, NoInvite) : m \in Memberships \cup {"bogus"}}
                    \cup {MemberContent("invite", Invite(Token))},
       federate \in BOOLEAN, rule \in {Absent, "public"},
       senderMember \in {Absent, "join", "invite"},
       old \in (Memberships \ {"knock"}) \cup {Absent},
       pls \in MemberPowerLevels :
       /\ sender # target
       /\ event = Ev("m.room.member", Room, sender, target, content, <<>>, Empty)
       /\ authEvents = Auth(federate, rule, pls,
                            [NoMembers EXCEPT ![sender] = senderMember, ![target] = old], {})

InitPowerLevels ==
    \E sender \in {Alice, Bob},
       content \in ChangedPowerLevels
                    \cup {Unparsable, PL(EmptyMap, EmptyMap, (NoColon :> 50 @@ Alice :> 100)),
                          PL(EmptyMap, EmptyMap, (<<"b", ":", "y">> :> 0))},
       federate \in BOOLEAN, senderMember \in {Absent, "join"},
       pls \in ChangedPowerLevels \cup {NoEvent} :
       /\ event = Ev("m.room.power_levels", Room, sender, Empty, content, <<>>, Empty)
       /\ authEvents = Auth(federate, Absent, pls,
                            [NoMembers EXCEPT ![sender] = senderMember], {})

InitOther ==
    \E type \in {"m.room.redact", "m.room.message", "m.room.aliases"},
       sender \in Senders, stateKey \in {Nil, Empty, Alice, DomainX},
       redacts \in {CreateID, OtherID, <<"$", "o">>},
       federate \in BOOLEAN, senderMember \in {Absent, "join", "leave"},
       pls \in OtherPowerLevels :
       /\ event = Ev(type, Room, sender, stateKey, NoContent, <<>>, redacts)
       /\ authEvents = Auth(federate, Absent, pls,
                            [u \in Users |-> IF u = sender THEN senderMember ELSE Absent], {})

NoResult == Ret([kind |-> "none", msg |-> ""], {})
NoNeeded ==
    [kind |-> "none", Create |-> FALSE, JoinRules |-> FALSE, PowerLevels |-> FALSE,
     Member |-> <<>>, ThirdPartyInvite |-> <<>>]
NoCall == Ev("none", Room, Alice, Nil, NoContent, <<>>, Empty)

----------------------------------------------------------------------------
(* Allowed, applied to one event and one oracle *)

Init ==
    /\ pc = "call"
    /\ result = NoResult
    /\ events = <<>>
    /\ needed = NoNeeded
    /\ \/ InitCreate
       \/ InitAlias
       \/ InitMemberSelf
       \/ InitMemberOther
       \/ InitPowerLevels
       \/ InitOther

(* Allowed returns to its caller. *)
Return ==
    /\ result' = Allowed(event, authEvents)
    /\ pc' = "done"
    /\ UNCHANGED <<event, authEvents, events, needed>>

(* One action for each rule routine the event's type sends Allowed to. *)
CallCreate ==
    /\ pc = "call"
    /\ event.type = "m.room.create"
    /\ Return

CallAlias ==
    /\ pc = "call"
    /\ event.type = "m.room.alias"
    /\ Return

CallMember ==
    /\ pc = "call"
    /\ event.type = "m.room.member"
    /\ Return

CallPowerLevels ==
    /\ pc = "call"
    /\ event.type = "m.room.power_levels"
    /\ Return

CallRedact ==
    /\ pc = "call"
    /\ event.type = "m.room.redact"
    /\ Return

CallDefault ==
    /\ pc = "call"
    /\ event.type \in {"m.room.message", "m.room.aliases"}
    /\ Return

Next ==
    \/ CallCreate
    \/ CallAlias
    \/ CallMember
    \/ CallPowerLevels
    \/ CallRedact
    \/ CallDefault

Spec == Init /\ [][Next]_vars

----------------------------------------------------------------------------
(* StateNeededForAuth, applied to one batch of events *)

BatchEvents ==
    {Ev("m.room.create", Room, Alice, Empty, NoContent, <<>>, Empty),
     Ev("m.room.aliases", Room, Alice, DomainX, NoContent, <<>>, Empty),
     Ev("m.room.member", Room, Bob, Nil, MemberContent("join", NoInvite), <<>>, Empty)}
    \cup {Ev("m.room.message", Room, sender, Nil, NoContent, <<>>, Empty) :
             sender \in {Alice, Carol}}
    \cup {Ev("m.room.member", Room, sender, target, content, <<>>, Empty) :
             sender \in {Alice, Bob}, target \in {Bob, Carol},
             content \in {Unparsable, MemberContent("join", NoInvite),
                          MemberContent("invite", Invite(Empty)),
                          MemberContent("invite", Invite(Token)),
                          MemberContent("invite", Invite(Token2))}}

Batches == UNION {[1..n -> BatchEvents] : n \in 0..MaxBatch}

InitNeeded ==
    /\ pc = "call"
    /\ events \in Batches
    /\ needed = NoNeeded
    /\ event = NoCall
    /\ authEvents = OnlyCreate
    /\ result = NoResult

CallStateNeeded ==
    /\ pc = "call"
    /\ needed' = StateNeededForAuth(events)
    /\ pc' = "done"
    /\ UNCHANGED <<event, authEvents, result, events>>

SpecNeeded == InitNeeded /\ [][CallStateNeeded]_vars

----------------------------------------------------------------------------
(* A room: member events sent one after the other, each judged by Allowed against
   the state the admitted events before it have produced *)

RoomPowerLevels ==
    {NoEvent,
     PL(EmptyMap, EmptyMap, (Alice :> 50 @@ Bob :> 100))}

RoomContents == {MemberContent(m, NoInvite) : m \in Memberships}

RoomEvents ==
    {Ev("m.room.member", Room, sender, target, content, <<>>, Empty) :
        sender \in Users, target \in Users, content \in RoomContents}
    \cup {Ev("m.room.member", Room, sender, sender, MemberContent("join", NoInvite),
              <<GoodRef(CreateID)>>, Empty) : sender \in Users}

InitRoom ==
    /\ pc = "room"
    /\ \E rule \in {Absent, "public"}, pls \in RoomPowerLevels :
          authEvents = Auth(TRUE, rule, pls, NoMembers, {})
    /\ event = NoCall
    /\ result = NoResult
    /\ events = <<>>
    /\ needed = NoNeeded

(* An admitted member event becomes the member entry of its target. *)
SendMember ==
    /\ pc = "room"
    /\ \E e \in RoomEvents :
          LET r == Allowed(e, authEvents)
          IN  /\ event' = e
              /\ result' = r
              /\ authEvents' =
                    IF r.res = Ok
                    THEN [authEvents EXCEPT !.member[e.stateKey] = e.content.membership]
                    ELSE authEvents
    /\ UNCHANGED <<pc, events, needed>>

SpecRoom == InitRoom /\ [][SendMember]_vars

----------------------------------------------------------------------------
(* Properties *)

Done == pc = "done"
Admitted == result.res.kind = "ok"
Denied == result.res.kind = "NotAllowed"
Aborted == result.res.kind = "panic"

IsMember == event.type = "m.room.member"
Parses == event.content # Unparsable
New == event.content.membership
HasInvite == event.content.third_party_invite # NoInvite
Creator == authEvents.create.creator

(* The oracle's answers as the rules read them: an absent member entry is
   "leave", an absent join-rules event is "invite". *)
Membership(u) == IF authEvents.member[u] = Absent THEN "leave" ELSE authEvents.member[u]
Rule == IF authEvents.joinRules = Absent THEN "invite" ELSE authEvents.joinRules

(* The event's domain satisfies the federation policy of the create event. *)
Federates(id) ==
    /\ IndexColon(id) # 0
    /\ \/ authEvents.create.federate
       \/ SubSeq(id, IndexColon(id) + 1, Len(id))
            = SubSeq(Creator, IndexColon(Creator) + 1, Len(Creator))

(* Every prior-event reference is a pair whose first element is an event ID. *)
PrevWellFormed ==
    \A i \in 1..Len(event.prevEvents) :
        Len(event.prevEvents[i]) = 2 /\ event.prevEvents[i][1].json = "string"

(* The single prior event is the create event. *)
PrevIsTheCreate ==
    /\ Len(event.prevEvents) = 1
    /\ Len(event.prevEvents[1]) = 2
    /\ event.prevEvents[1][1] = JString(authEvents.create.eventID)

(* The creator's join directly after the create event. *)
Bootstrap ==
    /\ IsMember /\ Parses
    /\ New = "join"
    /\ event.sender = Creator
    /\ event.stateKey = Creator
    /\ PrevIsTheCreate

(* The current power levels and the effective level of a user under them. *)
Levels == powerLevelLoad(authEvents, Creator)
Level(u) == userLevel(Levels, u)

(* The keys the per-type rules of StateNeededForAuth require for the event. *)
NeededKeys(ev) ==
    LET acc == Collected(<<ev>>)
    IN  (IF acc.Create THEN {Key("create")} ELSE {})
        \cup (IF acc.JoinRules THEN {Key("join_rules")} ELSE {})
        \cup (IF acc.PowerLevels THEN {Key("power_levels")} ELSE {})
        \cup {MemberKey(acc.members[i]) : i \in 1..Len(acc.members)}
        \cup {ThirdPartyInviteKey(acc.thirdpartyinvites[i]) :
                 i \in 1..Len(acc.thirdpartyinvites)}

(* C1: every oracle lookup Allowed performs on an event is for a key that
   StateNeededForAuth enumerates for that event; for an m.room.aliases event,
   for which only the create event is enumerated, neither the power levels nor a
   member entry is consulted. *)
C1_LookupsWithinStateNeeded ==
    Done => result.looked \subseteq NeededKeys(event)

(* The self-transition table. *)
SelfTable(old, new, rule) ==
    \/ old = "leave" /\ new = "join" /\ rule = "public"
    \/ old = "invite" /\ new = "join" /\ rule \in {"public", "invite"}
    \/ old = "join" /\ new = "join"
    \/ old = "join" /\ new = "leave"
    \/ old = "invite" /\ new = "leave"

(* A well-formed member event of a user about themselves that is not the creator
   bootstrap, carries no third-party invite and satisfies the federation policy. *)
SelfCase ==
    /\ Done /\ IsMember /\ Parses
    /\ event.stateKey = event.sender
    /\ PrevWellFormed
    /\ ~Bootstrap
    /\ ~HasInvite
    /\ Federates(event.sender)

(* C2: a member event whose sender is its state key (no bootstrap, no third-party
   invite, federation policy satisfied) is admitted exactly when (old, new) is in
   the self-transition table, old being "leave" and the join rule "invite" when
   the oracle has no entry; every other self-transition is denied. *)
C2_SelfTransitionTable ==
    SelfCase =>
        /\ Admitted <=> SelfTable(Membership(event.sender), New, Rule)
        /\ ~Admitted => Denied

(* An invited user joins a room that has no join-rules event. *)
C2_Witness ==
    /\ SelfCase
    /\ authEvents.joinRules = Absent
    /\ authEvents.member[event.sender] = "invite"
    /\ New = "join"
    /\ Admitted

(* The other-transition table, with S and T the sender's and the target's level. *)
OtherTable(senderMember, old, new, S, T) ==
    /\ senderMember = "join"
    /\ \/ new = "ban" /\ S >= Levels.banLevel /\ S > T
       \/ new = "leave" /\ old = "ban" /\ S >= Levels.banLevel
       \/ new = "leave" /\ old # "ban" /\ S >= Levels.kickLevel /\ S > T
       \/ new = "invite" /\ old \in {"leave", "invite"} /\ S >= Levels.inviteLevel

(* A member event of one user about another, without a third-party invite, whose
   sender and target satisfy the federation policy. *)
OtherCase ==
    /\ Done /\ IsMember /\ Parses
    /\ event.stateKey # Nil
    /\ event.stateKey # event.sender
    /\ ~HasInvite
    /\ Federates(event.sender)
    /\ Federates(event.stateKey)

(* C3: a member event whose sender differs from its state key is admitted exactly
   when the sender is joined and the other-transition table allows the change;
   a kick or ban of a target of the sender's own level is denied, and so is every
   change by a sender who is not joined. *)
C3_OtherTransitionTable ==
    OtherCase =>
        /\ Admitted <=> OtherTable(Membership(event.sender), Membership(event.stateKey),
                                    New, Level(event.sender), Level(event.stateKey))
        /\ ~Admitted => Denied

(* A joined sender at the kick level kicks a target of the same level and is denied. *)
C3_Witness ==
    /\ OtherCase
    /\ Membership(event.sender) = "join"
    /\ Membership(event.stateKey) = "join"
    /\ New = "leave"
    /\ Level(event.sender) = Level(event.stateKey)
    /\ Level(event.sender) >= Levels.kickLevel
    /\ Denied

(* A join of the creator about themselves with exactly one, well-formed, prior
   event reference. *)
CreatorJoinCase ==
    /\ Done /\ IsMember /\ Parses
    /\ New = "join"
    /\ event.sender = Creator
    /\ event.stateKey = Creator
    /\ Len(event.prevEvents) = 1
    /\ PrevWellFormed

(* C4: the creator's join whose single prior event is the create event is admitted
   whatever the join rules, power levels and member entries are; with any other
   prior event ID it is decided by the self-transition table, so it is denied
   when join rules and member entry are absent. *)
C4_CreatorBootstrap ==
    CreatorJoinCase =>
        IF event.prevEvents[1][1].val = authEvents.create.eventID
        THEN Admitted
        ELSE /\ Admitted <=> SelfTable(Membership(Creator), "join", Rule)
             /\ ~Admitted => Denied

(* The bootstrap join is admitted by an oracle that knows only the create event,
   with federation switched off or on. *)
C4_Witness ==
    /\ CreatorJoinCase
    /\ Bootstrap
    /\ authEvents.joinRules = Absent
    /\ authEvents.powerLevels = NoEvent
    /\ authEvents.member = NoMembers
    /\ Admitted

(* C8: an invite that carries a third_party_invite sub-object, and is not the
   creator bootstrap, is answered with a NotAllowed denial: Allowed returns to
   its caller, does not abort, and does not admit the event. *)
C8_ThirdPartyInviteDenied ==
    (Done /\ IsMember /\ Parses /\ New = "invite" /\ HasInvite /\ ~Bootstrap) => Denied

IsPowerLevels == event.type = "m.room.power_levels"

(* The power levels the event asks for, and the sender's level under the old ones. *)
NewLevels == powerLevelParse(event.content)
SenderLevel == Level(event.sender)

(* The common checks: federation policy, sender joined, sender's level at least
   the level the event type requires, state of a user only set by that user. *)
CommonChecksPass ==
    /\ Federates(event.sender)
    /\ Membership(event.sender) = "join"
    /\ SenderLevel >= eventLevel(Levels, event.type, event.stateKey)
    /\ ~(event.stateKey # Nil /\ Len(event.stateKey) > 0 /\ event.stateKey[1] = "@"
          /\ event.stateKey # event.sender)

(* The (old, new) pairs of the seven scalars and of every event type that the old
   or the new events map names. *)
ScalarPairs ==
    {<<Levels.banLevel, NewLevels.banLevel>>,
     <<Levels.inviteLevel, NewLevels.inviteLevel>>,
     <<Levels.kickLevel, NewLevels.kickLevel>>,
     <<Levels.redactLevel, NewLevels.redactLevel>>,
     <<Levels.stateDefaultLevel, NewLevels.stateDefaultLevel>>,
     <<Levels.eventDefaultLevel, NewLevels.eventDefaultLevel>>,
     <<Levels.userDefaultLevel, NewLevels.userDefaultLevel>>}
    \cup {<<eventLevel(Levels, t, Nil), eventLevel(NewLevels, t, Nil)>> :
             t \in DOMAIN Levels.eventLevels \cup DOMAIN NewLevels.eventLevels}

(* The users the old or the new users map names. *)
NamedUsers == DOMAIN Levels.userLevels \cup DOMAIN NewLevels.userLevels

(* A power-levels event that parses, names only well-formed user IDs and passes
   the common checks. *)
PowerLevelsCase ==
    /\ Done /\ IsPowerLevels /\ Parses
    /\ \A u \in DOMAIN NewLevels.userLevels : u # Empty /\ u[1] = "@" /\ IndexColon(u) # 0
    /\ CommonChecksPass

(* C5: a power-levels event that passes the common checks and changes no user
   level is admitted exactly when the sender's level is at least the old and the
   new value of every scalar and event-type level it changes. *)
C5_ScalarLevelRule ==
    (PowerLevelsCase /\ \A u \in NamedUsers : userLevel(Levels, u) = userLevel(NewLevels, u))
        => (Admitted <=> \A p \in ScalarPairs :
                             p[1] # p[2] => SenderLevel >= p[1] /\ SenderLevel >= p[2])

(* C6: an admitted power-levels event changes the level of a user only from a
   level below the sender's to a level not above the sender's, and below the
   sender's when the user is not the sender. *)
C6_UserLevelRule ==
    (Done /\ IsPowerLevels /\ Admitted) =>
        \A u \in NamedUsers :
            userLevel(Levels, u) # userLevel(NewLevels, u) =>
                /\ SenderLevel > userLevel(Levels, u)
                /\ SenderLevel >= userLevel(NewLevels, u)
                /\ u # event.sender => SenderLevel > userLevel(NewLevels, u)

(* The member keys and the tokens the per-type rules require for the batch. *)
RequiredMembers ==
    UNION {IF events[i].type = "m.room.member" THEN {events[i].sender, events[i].stateKey}
           ELSE IF events[i].type \in {"m.room.create", "m.room.aliases"} THEN {}
           ELSE {events[i].sender} : i \in 1..Len(events)}
RequiredTokens ==
    {events[i].content.third_party_invite.signed.token :
        i \in {j \in 1..Len(events) :
                 /\ events[j].type = "m.room.member"
                 /\ events[j].content # Unparsable
                 /\ events[j].content.third_party_invite # NoInvite
                 /\ events[j].content.third_party_invite.signed.token # Empty}}

StrictlyAscending(list) ==
    \A i \in 1..(Len(list) - 1) : StrLess(list[i], list[i + 1])
Elements(list) == {list[i] : i \in 1..Len(list)}

(* C7: for every batch, the empty one and one without member keys or tokens
   included, StateNeededForAuth returns, its Member and ThirdPartyInvite lists are
   strictly ascending and hold exactly the required keys, and a batch of create
   events alone needs nothing. *)
C7_StateNeededShape ==
    Done =>
        /\ needed.kind = "ok"
        /\ StrictlyAscending(needed.Member)
        /\ StrictlyAscending(needed.ThirdPartyInvite)
        /\ Elements(needed.Member) = RequiredMembers
        /\ Elements(needed.ThirdPartyInvite) = RequiredTokens
        /\ (\A i \in 1..Len(events) : events[i].type = "m.room.create")
              => /\ ~needed.Create /\ ~needed.JoinRules /\ ~needed.PowerLevels
                 /\ needed.Member = <<>> /\ needed.ThirdPartyInvite = <<>>

(* The oracle knows the create event and nothing else. *)
AllAbsent ==
    /\ authEvents.joinRules = Absent
    /\ authEvents.powerLevels = NoEvent
    /\ authEvents.member = NoMembers
    /\ authEvents.thirdPartyInvite = {}

Unbans(u) ==
    /\ result'.res = Ok
    /\ event'.stateKey = u
    /\ event'.content.membership = "leave"
    /\ event'.sender # u
    /\ authEvents.member[event'.sender] = "join"
    /\ Level(event'.sender) >= Levels.banLevel

(* The event just sent is the bootstrap join of u, the creator. *)
BootstrapOf(u) ==
    /\ u = Creator
    /\ event'.sender = u
    /\ event'.stateKey = u
    /\ event'.content.membership = "join"
    /\ event'.prevEvents = <<GoodRef(authEvents.create.eventID)>>

(* C10 as stated: a ban stands until another, joined, user with at least the ban
   level sends an admitted leave for the banned user; while it stands no event
   the banned user sends and no invite of the banned user is admitted. *)
C10_BanPersists ==
    [][\A u \in Users :
          authEvents.member[u] = "ban" =>
              /\ authEvents'.member[u] # "ban" => Unbans(u)
              /\ event'.sender = u => result'.res # Ok
              /\ (event'.stateKey = u /\ event'.content.membership = "invite")
                    => result'.res # Ok]_vars

(* C10, amended: the same, except that the room creator, when banned, is still
   admitted with the bootstrap join (a join about themselves whose single prior
   event is the create event), which ends the ban. *)
C10_BanPersistsBarBootstrap ==
    [][\A u \in Users :
          authEvents.member[u] = "ban" =>
              /\ authEvents'.member[u] # "ban" => (Unbans(u) \/ BootstrapOf(u))
              /\ (event'.sender = u /\ ~BootstrapOf(u)) => result'.res # Ok
              /\ (event'.stateKey = u /\ event'.content.membership = "invite")
                    => result'.res # Ok]_vars

(* A banned user has tried to leave and was denied; the ban stands. *)
C10_Witness ==
    /\ pc = "room"
    /\ authEvents.member[Bob] = "ban"
    /\ event.sender = Bob
    /\ event.stateKey = Bob
    /\ event.content.membership = "leave"
    /\ Denied
====
